---- MODULE Spec2Model ----
(***************************************************************************)
(* Model of the Munich payment map client (App component) and of the       *)
(* hosted tables it reads and writes.                                      *)
(*                                                                         *)
(* The client is single-threaded and event-driven: every action below is   *)
(* one run of a handler from an event (or the resumption after an await)   *)
(* up to its next await or its end.  The tables venue_votes and            *)
(* venue_blacklist are the environment.                                    *)
(***************************************************************************)
EXTENDS Integers, Sequences, FiniteSets, TLC

(***************************************************************************)
(* Bounds of the model.                                                    *)
(***************************************************************************)
\* largest number of vote clicks followed in one session
MaxClicks == 3
\* largest number of vote submissions awaiting their upsert at one time
MaxPending == 2
\* largest counter value of the tallies handed to calculateStatus directly
MaxTally == 4
\* largest number of venue fetch attempts followed within one load chain
MaxAttempts == 6

(***************************************************************************)
(* Program constants.                                                      *)
(***************************************************************************)
maxRetries == 3
pageSize == 1000

Venues == {"node/1", "node/2"}

VoteTypes == {"cash", "girocard", "card"}

ZeroVotes == [cash_votes |-> 0, ec_votes |-> 0, card_votes |-> 0]

(***************************************************************************)
(* calculateStatus: the majority rule.  votes.x || 0 is x for the numbers  *)
(* the tables hold.  The status text carries the winning count.            *)
(***************************************************************************)
calculateStatus_GiroFirst(votes) ==
    LET card == votes.card_votes
        girocard == votes.ec_votes
        cash == votes.cash_votes
    IN  IF girocard >= cash /\ girocard > 0
        THEN [color |-> "#FFCC00", text |-> [label |-> "Verified: Girocard Only", n |-> girocard], type |-> "girocard"]
        ELSE IF card >= girocard /\ card >= cash /\ card > 0
        THEN [color |-> "#34C759", text |-> [label |-> "Verified: Accepts All Common Cards", n |-> card], type |-> "card"]
        ELSE IF cash > 0
        THEN [color |-> "#FF3B30", text |-> [label |-> "Verified: Cash Only", n |-> cash], type |-> "cash"]
        ELSE [color |-> "#b0bec5", text |-> [label |-> "Unknown", n |-> 0], type |-> "unknown"]

calculateStatus_StrictCard(votes) ==
    LET card == votes.card_votes
        girocard == votes.ec_votes
        cash == votes.cash_votes
    IN  IF card > girocard /\ card > cash
        THEN [color |-> "#34C759", text |-> [label |-> "Verified: Accepts All Common Cards", n |-> card], type |-> "card"]
        ELSE IF girocard >= cash /\ girocard > 0
        THEN [color |-> "#FFCC00", text |-> [label |-> "Verified: Girocard Only", n |-> girocard], type |-> "girocard"]
        ELSE IF cash > 0
        THEN [color |-> "#FF3B30", text |-> [label |-> "Verified: Cash Only", n |-> cash], type |-> "cash"]
        ELSE [color |-> "#b0bec5", text |-> [label |-> "Unknown", n |-> 0], type |-> "unknown"]

calculateStatus(votes) ==
    LET card == votes.card_votes
        girocard == votes.ec_votes
        cash == votes.cash_votes
    IN  IF card >= girocard /\ card >= cash /\ card > 0
        THEN [color |-> "#34C759", text |-> [label |-> "Verified: Accepts All Common Cards", n |-> card], type |-> "card"]
        ELSE IF girocard >= cash /\ girocard > 0
        THEN [color |-> "#FFCC00", text |-> [label |-> "Verified: Girocard Only", n |-> girocard], type |-> "girocard"]
        ELSE IF cash > 0
        THEN [color |-> "#FF3B30", text |-> [label |-> "Verified: Cash Only", n |-> cash], type |-> "cash"]
        ELSE [color |-> "#b0bec5", text |-> [label |-> "Unknown", n |-> 0], type |-> "unknown"]

(***************************************************************************)
(* Source tags of a venue and the fallback used when the votes give        *)
(* unknown.  A tag is "yes", "no" or "" (absent).                          *)
(***************************************************************************)
NoTags == [cards |-> "", visa |-> "", mastercard |-> "", girocard |-> ""]

osmFallback_GiroFirst(status, p) ==
    IF status.type = "unknown"
    THEN IF p.cards = "no"
         THEN [color |-> "#FF3B30", text |-> [label |-> "Cash Only (OSM)", n |-> 0], type |-> "cash"]
         ELSE IF p.girocard = "yes"
         THEN [color |-> "#FFCC00", text |-> [label |-> "Girocard Only (OSM)", n |-> 0], type |-> "girocard"]
         ELSE IF p.visa = "yes" \/ p.mastercard = "yes" \/ p.cards = "yes"
         THEN [color |-> "#34C759", text |-> [label |-> "Accepts All Common Cards (OSM)", n |-> 0], type |-> "card"]
         ELSE status
    ELSE status

osmFallback(status, p) ==
    IF status.type = "unknown"
    THEN IF p.cards = "no"
         THEN [color |-> "#FF3B30", text |-> [label |-> "Cash Only (OSM)", n |-> 0], type |-> "cash"]
         ELSE IF p.visa = "yes" \/ p.mastercard = "yes" \/ p.cards = "yes"
         THEN [color |-> "#34C759", text |-> [label |-> "Accepts All Common Cards (OSM)", n |-> 0], type |-> "card"]
         ELSE IF p.girocard = "yes"
         THEN [color |-> "#FFCC00", text |-> [label |-> "Girocard Only (OSM)", n |-> 0], type |-> "girocard"]
         ELSE status
    ELSE status

\* Math.round((a / b) * 100) for the small non-negative a, b > 0 of the model
RoundPercent(a, b) == (200 * a + b) \div (2 * b)

\* `${voteType}_votes`.replace('girocard', 'ec')
col(voteType) ==
    CASE voteType = "cash" -> "cash_votes"
      [] voteType = "girocard" -> "ec_votes"
      [] voteType = "card" -> "card_votes"

RECURSIVE Pow2(_)
Pow2(n) == IF n <= 0 THEN 1 ELSE 2 * Pow2(n - 1)


(***************************************************************************)
(* State.                                                                  *)
(***************************************************************************)
VARIABLES
    \* ---- the environment: the venue source and the hosted tables
    osmFeatures,     \* what the venue source holds: venue id -> source tags
    blacklistTable,  \* table venue_blacklist: the set of osm_id
    voteTable,       \* table venue_votes: the rows of the model's venues, in table order
    filler,          \* number of venue_votes rows of other venues, stored before them
    \* ---- the App component
    retryCount,      \* retryCount.current
    blacklistSet,    \* blacklistSet.current
    isLoading,       \* useState isLoading
    loadError,       \* useState loadError
    stats,           \* useState stats
    masterData,      \* masterData.current
    votedVenues,     \* localStorage item votedVenues
    \* ---- fetchOverpassData in progress
    loadPc,          \* where the load stands: idle, fetch, blacklist, votes, timer, done
    timer,           \* delay (ms) of the pending retry timer, 0 when none
    geoJson,         \* local geoJson.features: venue id -> source tags
    allVotes,        \* local allVotes
    from,            \* local from
    \* ---- popups and vote submissions
    popup,           \* the popup open on the map, with what its handler captured
    pending,         \* handleVote calls suspended at the upsert, oldest first
    alert,           \* the alert() raised by the last step, "none" when it raised none
    \* ---- history, for stating the properties
    chainFailures,   \* consecutive failed fetch attempts of the load chain under way
    pageRequests,    \* vote page requests issued by the current load
    voteReadFailed,  \* a vote page read of the current load returned an error
    clicks,          \* vote clicks made so far
    persisted,       \* venue id -> number of this client's upserts that succeeded
    lastUpsert,      \* venue id -> the triple of this client's last successful upsert
    response,        \* what the venue source answered to the last fetch, "none" before it
    blacklistRead,   \* what the last blacklist read returned
    byManualRetry,   \* the load chain under way was started from the error toast
    outstanding,     \* venue fetches in flight plus retry timers scheduled
    \* ---- reports
    reportedVenues,  \* localStorage item reportedVenues
    suggestions,     \* table venue_suggestions: venue id -> number of its report rows
    pendingReports,  \* handleReport calls suspended at the insert, oldest first
    \* ---- the filter and the map source
    activeFilter,    \* useState activeFilter
    displayed,       \* the venue ids last handed to the source 'places'
    \* ---- a direct call of calculateStatus
    calcVotes,       \* the tally handed to it
    calcStatus       \* the status it returned

envVars == <<osmFeatures, blacklistTable, voteTable, filler>>
appVars == <<retryCount, blacklistSet, isLoading, loadError, stats, masterData,
             votedVenues>>
loadVars == <<loadPc, timer, geoJson, allVotes, from>>
voteVars == <<popup, pending, alert>>
histVars == <<chainFailures, pageRequests, voteReadFailed, clicks, persisted, lastUpsert>>
loadHist == <<response, blacklistRead, byManualRetry, outstanding>>
reportVars == <<reportedVenues, suggestions, pendingReports>>
filterVars == <<activeFilter, displayed>>
calcVars == <<calcVotes, calcStatus>>
vars == <<envVars, appVars, loadVars, voteVars, histVars, loadHist, reportVars,
          filterVars, calcVars>>

NoStatus == [color |-> "", text |-> [label |-> "", n |-> 0], type |-> ""]
NoError == "null"
RetryingError(n) == [msg |-> "Loading failed. Retrying...", n |-> n, of |-> maxRetries]
PermanentError == [msg |-> "Failed to load venue data. Please refresh the page.", n |-> 0, of |-> 0]
NoErrorRec == [msg |-> NoError, n |-> 0, of |-> 0]

NoPopup == [open |-> FALSE, id |-> "", hasVoted |-> FALSE, hasReported |-> FALSE]
NoUpsert == [cash_votes |-> -1, ec_votes |-> -1, card_votes |-> -1]
EmptyVotes == [filler |-> 0, rows |-> <<>>]
NullData == [isNull |-> TRUE, features |-> <<>>]
NoRead == [done |-> FALSE, error |-> FALSE, ids |-> {}]

Row(id, cash, ec, card) ==
    [osm_id |-> id, cash_votes |-> cash, ec_votes |-> ec, card_votes |-> card]

Triple(r) == [cash_votes |-> r.cash_votes, ec_votes |-> r.ec_votes, card_votes |-> r.card_votes]

(***************************************************************************)
(* The state after construction: the component is mounted, the map has     *)
(* not fired its load event yet.  The environment is any of the given      *)
(* choices.                                                                *)
(***************************************************************************)
AppInit ==
    /\ retryCount = 0
    /\ blacklistSet = {}
    /\ isLoading = TRUE
    /\ loadError = NoErrorRec
    /\ stats = [total |-> 0, mapped |-> 0, percent |-> 0]
    /\ masterData = NullData
    /\ votedVenues = {}
    /\ loadPc = "idle"
    /\ timer = 0
    /\ geoJson = <<>>
    /\ allVotes = EmptyVotes
    /\ from = 0
    /\ popup = NoPopup
    /\ pending = <<>>
    /\ alert = "none"
    /\ chainFailures = 0
    /\ pageRequests = 0
    /\ voteReadFailed = FALSE
    /\ clicks = 0
    /\ persisted = [v \in Venues |-> 0]
    /\ lastUpsert = [v \in Venues |-> NoUpsert]
    /\ response = "none"
    /\ blacklistRead = NoRead
    /\ byManualRetry = FALSE
    /\ outstanding = 0
    /\ reportedVenues = {}
    /\ suggestions = [v \in Venues |-> 0]
    /\ pendingReports = <<>>
    /\ activeFilter = "all"
    /\ displayed = {}

CalcIdle ==
    /\ calcVotes = ZeroVotes
    /\ calcStatus = NoStatus

CardsYes == [cards |-> "yes", visa |-> "", mastercard |-> "", girocard |-> ""]
CardsNoGiroYes == [cards |-> "no", visa |-> "", mastercard |-> "", girocard |-> "yes"]
GiroYesVisaYes == [cards |-> "", visa |-> "yes", mastercard |-> "", girocard |-> "yes"]
GiroYes == [cards |-> "", visa |-> "", mastercard |-> "", girocard |-> "yes"]
CardsNoVisaYes == [cards |-> "no", visa |-> "yes", mastercard |-> "", girocard |-> ""]

TableChoices ==
    { <<>>,
      <<Row("node/1", 2, 0, 0)>>,
      <<Row("node/2", 0, 1, 0), Row("node/1", 0, 0, 1)>> }

\* a session: both venues at the source, nothing blacklisted, less than a page
\* of vote rows or, with no votes for the model's venues, exactly one page
Init ==
    /\ osmFeatures \in { [v \in Venues |-> NoTags],
                         [v \in Venues |-> IF v = "node/2" THEN CardsYes ELSE NoTags] }
    /\ blacklistTable = {}
    /\ voteTable \in TableChoices
    /\ filler \in {0, pageSize}
    /\ filler # 0 => voteTable = <<>> /\ osmFeatures = [v \in Venues |-> NoTags]
    /\ AppInit
    /\ CalcIdle

\* a load: any tags on any of the venues the source holds, possibly a third
\* venue nobody voted on, any blacklist, and vote rows of other venues: none,
\* one short of a page, two short of 2500
TagChoices == {NoTags, CardsYes, CardsNoGiroYes, GiroYesVisaYes, GiroYes, CardsNoVisaYes}

FillerChoices == {0, pageSize - 1, 2 * pageSize + 498}

ThirdVenue == {<<>>, [v \in {"node/3"} |-> NoTags], [v \in {"node/3"} |-> CardsYes]}

InitLoad ==
    /\ osmFeatures \in { f @@ g : f \in UNION { [S -> TagChoices] : S \in SUBSET Venues },
                                  g \in ThirdVenue }
    /\ blacklistTable \in SUBSET Venues
    /\ voteTable \in TableChoices
    /\ filler \in FillerChoices
    /\ AppInit
    /\ CalcIdle

\* a session with reports: both venues at the source, untagged and without
\* votes, nothing blacklisted, no vote rows or exactly one page of other venues'
InitReport ==
    /\ osmFeatures = [v \in Venues |-> NoTags]
    /\ blacklistTable = {}
    /\ voteTable = <<>>
    /\ filler \in {0, pageSize}
    /\ AppInit
    /\ CalcIdle

\* a session of the earlier variant: both venues at the source, one of them
\* possibly tagged, any of the vote tables
InitOld ==
    /\ osmFeatures \in { [v \in Venues |-> NoTags],
                         [v \in Venues |-> IF v = "node/2" THEN CardsYes ELSE NoTags] }
    /\ blacklistTable = {}
    /\ voteTable \in TableChoices
    /\ filler = 0
    /\ AppInit
    /\ CalcIdle

\* a page view in which the venue fetch never succeeds
InitFail ==
    /\ osmFeatures \in {<<>>, [v \in Venues |-> NoTags]}
    /\ blacklistTable \in SUBSET Venues
    /\ voteTable \in TableChoices
    /\ filler = 0
    /\ AppInit
    /\ CalcIdle

\* a direct call of calculateStatus with any tally up to MaxTally
Tallies == [cash_votes : 0..MaxTally, ec_votes : 0..MaxTally, card_votes : 0..MaxTally]

InitCalc ==
    /\ osmFeatures = [v \in Venues |-> NoTags]
    /\ blacklistTable = {}
    /\ voteTable = <<>>
    /\ filler = 0
    /\ AppInit
    /\ calcVotes \in Tallies
    /\ calcStatus = NoStatus

(***************************************************************************)
(* fetchOverpassData.                                                      *)
(***************************************************************************)
\* entry, up to the await of fetch(...)
fetchEntry ==
    /\ isLoading' = TRUE
    /\ loadError' = NoErrorRec
    /\ loadPc' = "fetch"
    /\ timer' = 0

\* map.current.on('load', ...)
MapLoad ==
    /\ loadPc = "idle"
    /\ fetchEntry
    /\ chainFailures' = 0
    /\ outstanding' = outstanding + 1
    /\ UNCHANGED <<envVars, retryCount, blacklistSet, stats, masterData,
                   votedVenues, geoJson, allVotes, from, voteVars, pageRequests,
                   voteReadFailed, clicks, persisted, lastUpsert, response, blacklistRead,
                   byManualRetry, reportVars, filterVars,
                   calcVars>>

\* the catch block: schedule a retry or give up
retryAllowed_Inclusive == retryCount <= maxRetries

retryAllowed == retryCount < maxRetries

retryDelay_Linear(n) == n * 1000

retryDelay(n) == Pow2(n - 1) * 1000

catchBlock_AlwaysRetry ==
    /\ retryCount' = retryCount + 1
    /\ loadError' = RetryingError(retryCount + 1)
    /\ timer' = retryDelay(retryCount + 1)
    /\ loadPc' = "timer"
    /\ UNCHANGED isLoading

catchBlock ==
    IF retryAllowed
    THEN /\ retryCount' = retryCount + 1
         /\ loadError' = RetryingError(retryCount + 1)
         /\ timer' = retryDelay(retryCount + 1)
         /\ loadPc' = "timer"
         /\ UNCHANGED isLoading
    ELSE /\ isLoading' = FALSE
         /\ loadError' = PermanentError
         /\ loadPc' = "done"
         /\ UNCHANGED <<retryCount, timer>>

\* what the venue source may answer
FetchOutcomes == {"network_error", "not_ok", "no_elements", "no_features", "ok"}

\* the response checks: a throw for everything but a response with features
responseThrows_EmptyAccepted(outcome) ==
    \/ outcome = "network_error"
    \/ outcome = "not_ok"

responseThrows(outcome) ==
    \/ outcome = "network_error"
    \/ outcome = "not_ok"
    \/ outcome = "no_elements"
    \/ outcome = "no_features"
    \/ DOMAIN osmFeatures = {}

\* the answer as the checks see it: a source that holds no venue answers with
\* no elements
answered(outcome) ==
    IF outcome = "ok" /\ DOMAIN osmFeatures = {} THEN "no_elements" ELSE outcome

\* what the try block has done to the shared state when the fetch throws
afterFailedFetch_Cleared ==
    [masterData |-> [isNull |-> FALSE, features |-> <<>>],
     stats |-> [total |-> 0, mapped |-> 0, percent |-> 0],
     blacklistSet |-> {}]

afterFailedFetch ==
    [masterData |-> masterData, stats |-> stats, blacklistSet |-> blacklistSet]

\* the fetch fails or the response is rejected
FetchFails(outcome) ==
    /\ loadPc = "fetch"
    /\ responseThrows(outcome)
    /\ chainFailures < MaxAttempts
    /\ catchBlock
    /\ chainFailures' = chainFailures + 1
    /\ outstanding' = outstanding - 1 + (IF timer' > 0 THEN 1 ELSE 0)
    /\ response' = answered(outcome)
    /\ masterData' = afterFailedFetch.masterData
    /\ stats' = afterFailedFetch.stats
    /\ blacklistSet' = afterFailedFetch.blacklistSet
    /\ UNCHANGED <<envVars, votedVenues, geoJson, allVotes, from, voteVars, pageRequests,
                   voteReadFailed, clicks, persisted, lastUpsert, blacklistRead,
                   byManualRetry, reportVars, filterVars,
                   calcVars>>

\* the response is accepted; the blacklist read is issued
FetchSucceeds ==
    /\ loadPc = "fetch"
    /\ ~responseThrows("ok")
    /\ geoJson' = osmFeatures
    /\ loadPc' = "blacklist"
    /\ response' = answered("ok")
    /\ outstanding' = outstanding - 1
    /\ UNCHANGED <<envVars, appVars, timer, allVotes, from, voteVars, histVars,
                   blacklistRead, byManualRetry, reportVars, filterVars,
                   calcVars>>

\* setTimeout(() => fetchOverpassData(true), delay)
RetryTimerFires ==
    /\ loadPc = "timer"
    /\ timer > 0
    /\ fetchEntry
    /\ UNCHANGED <<envVars, retryCount, blacklistSet, stats, masterData,
                   votedVenues, geoJson, allVotes, from, voteVars, histVars, loadHist,
                   reportVars, filterVars,
                   calcVars>>

\* the error toast is rendered, with its onClick
errorToastShown_WhileLoading == loadError # NoErrorRec

errorToastShown == ~isLoading /\ loadError # NoErrorRec

\* retryCount.current as the onClick of the error toast sets it
manualRetryCount_Kept == retryCount

manualRetryCount == 0

\* onClick of the error toast
ManualRetry ==
    /\ errorToastShown
    /\ retryCount' = manualRetryCount
    /\ fetchEntry
    /\ chainFailures' = 0
    /\ byManualRetry' = TRUE
    /\ outstanding' = outstanding + 1
    /\ UNCHANGED <<envVars, blacklistSet, stats, masterData, votedVenues,
                   geoJson, allVotes, from, voteVars, pageRequests, voteReadFailed, clicks,
                   persisted, lastUpsert, response, blacklistRead, reportVars, filterVars,
                   calcVars>>

\* blacklistSet.current after the blacklist read has answered
blacklistAfterRead_FailClosed(blacklistError) ==
    IF blacklistError THEN DOMAIN geoJson
    ELSE IF blacklistTable # {} THEN blacklistTable
    ELSE blacklistSet

blacklistAfterRead(blacklistError) ==
    IF blacklistError THEN blacklistSet
    ELSE IF blacklistTable # {} THEN blacklistTable
    ELSE blacklistSet

\* the blacklist read answers; the first vote page is requested
BlacklistRead(blacklistError) ==
    /\ loadPc = "blacklist"
    /\ blacklistSet' = blacklistAfterRead(blacklistError)
    /\ allVotes' = EmptyVotes
    /\ from' = 0
    /\ pageRequests' = 1
    /\ voteReadFailed' = FALSE
    /\ loadPc' = "votes"
    /\ blacklistRead' = [done |-> TRUE, error |-> blacklistError,
                         ids |-> IF blacklistError THEN {} ELSE blacklistTable]
    /\ UNCHANGED <<envVars, retryCount, isLoading, loadError, stats, masterData,
                   votedVenues, timer, geoJson, voteVars, chainFailures,
                   clicks, persisted, lastUpsert, response, byManualRetry, outstanding,
                   reportVars, filterVars,
                   calcVars>>


(***************************************************************************)
(* The paginated read of venue_votes and the rest of the load.             *)
(***************************************************************************)
Min(a, b) == IF a < b THEN a ELSE b
Max(a, b) == IF a > b THEN a ELSE b

\* .range(lo, hi) on venue_votes: the rows at the table positions lo..hi (from 0)
tableRange(lo, hi) ==
    [filler |-> Max(0, Min(hi, filler - 1) - lo + 1),
     rows |-> SubSeq(voteTable, Max(1, lo - filler + 1), Min(Len(voteTable), hi - filler + 1))]

rowCount(v) == v.filler + Len(v.rows)

\* .range(from, from + pageSize - 1)
votePage_Overlapping(f) == tableRange(f, f + pageSize)

votePage(f) == tableRange(f, f + pageSize - 1)

\* allVotes = [...allVotes, ...voteData]
appendVotes(av, data) ==
    [filler |-> av.filler + data.filler, rows |-> av.rows \o data.rows]

\* what the loop leaves in allVotes when a page read returns an error (break)
votesOnError_Dropped(av) == EmptyVotes

votesOnError(av) == av

\* votesMap.get(id): the last row set under id, if any
hasVote_Never(av, id) == FALSE

hasVote(av, id) == \E i \in 1..Len(av.rows) : av.rows[i].osm_id = id

votesMapGet(av, id) ==
    LET last == CHOOSE i \in 1..Len(av.rows) :
                    /\ av.rows[i].osm_id = id
                    /\ \A j \in (i + 1)..Len(av.rows) : av.rows[j].osm_id # id
    IN  av.rows[last]

\* the blacklist filter
keptIds_None(features, blacklist) == DOMAIN features

keptIds(features, blacklist) == {id \in DOMAIN features : id \notin blacklist}

\* geoJson.features.forEach(...): join the votes and resolve the status
processFeature(av, id) ==
    LET p == geoJson[id]
        votes == IF hasVote(av, id) THEN Triple(votesMapGet(av, id)) ELSE ZeroVotes
        status == osmFallback(calculateStatus(votes), p)
    IN  [tags |-> p,
         votes |-> votes,
         marker_color |-> status.color,
         payment_status |-> status.text,
         filter_type |-> status.type]

\* the stats of a venue collection
computeStats_Truncated(features) ==
    LET totalVenues == Cardinality(DOMAIN features)
        mappedVenues == Cardinality({id \in DOMAIN features : features[id].filter_type # "unknown"})
    IN  [total |-> totalVenues,
         mapped |-> mappedVenues,
         percent |-> IF totalVenues > 0 THEN (100 * mappedVenues) \div totalVenues ELSE 0]

computeStats(features) ==
    LET totalVenues == Cardinality(DOMAIN features)
        mappedVenues == Cardinality({id \in DOMAIN features : features[id].filter_type # "unknown"})
    IN  [total |-> totalVenues,
         mapped |-> mappedVenues,
         percent |-> IF totalVenues > 0 THEN RoundPercent(mappedVenues, totalVenues) ELSE 0]

\* from the end of the page loop to the end of the try block
finishLoad(av) ==
    LET features == [id \in keptIds(geoJson, blacklistSet) |-> processFeature(av, id)]
    IN  /\ stats' = computeStats(features)
        /\ masterData' = [isNull |-> FALSE, features |-> features]
        /\ isLoading' = FALSE
        /\ retryCount' = 0
        /\ loadPc' = "done"
        /\ chainFailures' = 0
        /\ byManualRetry' = FALSE
        /\ displayed' = DOMAIN features
        /\ UNCHANGED outstanding

\* a page read returns an error: the loop breaks and the load goes on
VotePageFails ==
    /\ loadPc = "votes"
    /\ allVotes' = votesOnError(allVotes)
    /\ voteReadFailed' = TRUE
    /\ finishLoad(allVotes')
    /\ UNCHANGED <<envVars, blacklistSet, loadError, votedVenues, timer, geoJson, from,
                   voteVars, pageRequests, clicks, persisted, lastUpsert, response,
                   blacklistRead, reportVars, activeFilter,
                   calcVars>>

\* hasMore after a page was read without error
hasMoreAfter_Never(voteData) == FALSE

hasMoreAfter(voteData) == rowCount(voteData) > 0 /\ ~(rowCount(voteData) < pageSize)

\* a page read returns its rows, and the page is not the last one
VotePageMore ==
    LET voteData == votePage(from)
    IN  /\ loadPc = "votes"
        /\ hasMoreAfter(voteData)
        /\ allVotes' = appendVotes(allVotes, voteData)
        /\ from' = from + pageSize
        /\ pageRequests' = pageRequests + 1
        /\ UNCHANGED <<envVars, appVars, loadPc, timer, geoJson, voteVars, chainFailures,
                       voteReadFailed, clicks, persisted, lastUpsert, loadHist, reportVars, filterVars,
                   calcVars>>

\* a page read returns fewer rows than a page, or none: the loop ends
VotePageLast ==
    LET voteData == votePage(from)
    IN  /\ loadPc = "votes"
        /\ ~hasMoreAfter(voteData)
        /\ allVotes' = IF rowCount(voteData) > 0 THEN appendVotes(allVotes, voteData)
                       ELSE allVotes
        /\ from' = IF rowCount(voteData) > 0 THEN from + pageSize ELSE from
        /\ finishLoad(allVotes')
        /\ UNCHANGED <<envVars, blacklistSet, loadError, votedVenues, timer, geoJson,
                       voteVars, pageRequests, voteReadFailed, clicks, persisted,
                       lastUpsert, response, blacklistRead, reportVars, activeFilter,
                   calcVars>>


(***************************************************************************)
(* Popups and votes.                                                       *)
(***************************************************************************)
\* the places-dots layer exists and shows the venue
shown(id) == id \in displayed

\* a popup leaves the map: the calls it started keep running without it
detached(reqs) == [i \in 1..Len(reqs) |-> [reqs[i] EXCEPT !.live = FALSE]]

\* handleClick: a click on a venue's dot
PopupOpen(id) ==
    /\ shown(id)
    /\ popup' = [open |-> TRUE, id |-> id, hasVoted |-> id \in votedVenues,
                 hasReported |-> id \in reportedVenues]
    /\ pending' = detached(pending)
    /\ pendingReports' = detached(pendingReports)
    /\ alert' = "none"
    /\ UNCHANGED <<envVars, appVars, loadVars, histVars, loadHist, reportedVenues, suggestions, filterVars,
                   calcVars>>

\* the popup's close button
PopupClose ==
    /\ popup.open
    /\ popup' = NoPopup
    /\ pending' = detached(pending)
    /\ pendingReports' = detached(pendingReports)
    /\ alert' = "none"
    /\ UNCHANGED <<envVars, appVars, loadVars, histVars, loadHist, reportedVenues, suggestions, filterVars,
                   calcVars>>

\* the popup shows the three vote buttons
voteButtons == popup.open /\ ~popup.hasVoted

\* the object handed to upsert
upsertRow(match, id, voteType, newCount) ==
    [osm_id |-> id,
     cash_votes |-> IF voteType = "cash" THEN newCount ELSE match.votes.cash_votes,
     ec_votes |-> IF voteType = "girocard" THEN newCount ELSE match.votes.ec_votes,
     card_votes |-> IF voteType = "card" THEN newCount ELSE match.votes.card_votes]

\* handleVote, from the click to the await of the upsert
VoteClick(voteType) ==
    /\ voteButtons
    /\ shown(popup.id)
    /\ Len(pending) < MaxPending
    /\ clicks < MaxClicks
    /\ clicks' = clicks + 1
    /\ LET match == masterData.features[popup.id]
           wasUnknown == match.filter_type = "unknown"
           newCount == match.votes[col(voteType)] + 1
       IN  /\ pending' = Append(pending,
                  [id |-> popup.id,
                   voteType |-> voteType,
                   wasUnknown |-> wasUnknown,
                   newCount |-> newCount,
                   row |-> upsertRow(match, popup.id, voteType, newCount),
                   live |-> TRUE])
    /\ alert' = "none"
    /\ UNCHANGED <<envVars, appVars, loadVars, popup, chainFailures, pageRequests,
                   voteReadFailed, persisted, lastUpsert, loadHist, reportVars, filterVars,
                   calcVars>>

removeAt(seq, i) == SubSeq(seq, 1, i - 1) \o SubSeq(seq, i + 1, Len(seq))

\* upsert(row, { onConflict: 'osm_id' }) on venue_votes
upsert(table, row) ==
    IF \E i \in 1..Len(table) : table[i].osm_id = row.osm_id
    THEN [i \in 1..Len(table) |-> IF table[i].osm_id = row.osm_id THEN row ELSE table[i]]
    ELSE Append(table, row)

\* the local tally after a vote was saved: votes[col] = newCount
votesAfter(match, req) == [match.votes EXCEPT ![col(req.voteType)] = req.newCount]

\* setStats(prev => ...) when the venue went from unknown to known
statsAfter(req, newStatus) ==
    IF req.wasUnknown /\ newStatus.type # "unknown"
    THEN [total |-> stats.total,
          mapped |-> stats.mapped + 1,
          percent |-> RoundPercent(stats.mapped + 1, stats.total)]
    ELSE stats

\* the upsert of a suspended handleVote succeeds and the call runs to its end
UpsertSucceeds(i) ==
    /\ i \in 1..Len(pending)
    /\ LET req == pending[i]
           match == masterData.features[req.id]
           votes == votesAfter(match, req)
           newStatus == calculateStatus(votes)
       IN  /\ voteTable' = upsert(voteTable, req.row)
           /\ masterData' = [masterData EXCEPT !.features[req.id] =
                  [match EXCEPT !.votes = votes,
                                !.marker_color = newStatus.color,
                                !.payment_status = newStatus.text,
                                !.filter_type = newStatus.type]]
           /\ stats' = statsAfter(req, newStatus)
           /\ votedVenues' = votedVenues \cup {req.id}
           /\ displayed' = DOMAIN masterData.features
           /\ popup' = IF req.live THEN NoPopup ELSE popup
           /\ pending' = IF req.live THEN detached(removeAt(pending, i))
                         ELSE removeAt(pending, i)
           /\ pendingReports' = IF req.live THEN detached(pendingReports)
                                ELSE pendingReports
           /\ persisted' = [persisted EXCEPT ![req.id] = @ + 1]
           /\ lastUpsert' = [lastUpsert EXCEPT ![req.id] = Triple(req.row)]
    /\ alert' = "none"
    /\ UNCHANGED <<osmFeatures, blacklistTable, filler, retryCount, blacklistSet,
                   isLoading, loadError, loadVars, chainFailures, pageRequests,
                   voteReadFailed, clicks, loadHist, reportedVenues, suggestions, activeFilter,
                   calcVars>>

\* what a failed upsert leaves of the venue collection, the stats and the flags
afterFailedVote_Partial(req) ==
    [masterData |-> [masterData EXCEPT !.features[req.id].votes =
                                          votesAfter(masterData.features[req.id], req)],
     stats |-> stats,
     votedVenues |-> votedVenues]

afterFailedVote(req) ==
    [masterData |-> masterData, stats |-> stats, votedVenues |-> votedVenues]

\* the upsert of a suspended handleVote returns an error
UpsertFails(i) ==
    /\ i \in 1..Len(pending)
    /\ alert' = "Failed to save vote. Please try again."
    /\ pending' = removeAt(pending, i)
    /\ masterData' = afterFailedVote(pending[i]).masterData
    /\ stats' = afterFailedVote(pending[i]).stats
    /\ votedVenues' = afterFailedVote(pending[i]).votedVenues
    /\ UNCHANGED <<envVars, retryCount, blacklistSet, isLoading, loadError,
                   loadVars, popup, histVars, loadHist, reportVars, filterVars,
                   calcVars>>

(***************************************************************************)
(* Reports.                                                                *)
(***************************************************************************)
\* the popup shows the report button
reportButton == popup.open /\ ~popup.hasReported

\* handleReport, from the click to the await of the insert
ReportClick ==
    /\ reportButton
    /\ Len(pendingReports) < MaxPending
    /\ clicks < MaxClicks
    /\ clicks' = clicks + 1
    /\ pendingReports' = Append(pendingReports, [id |-> popup.id, live |-> TRUE])
    /\ alert' = "none"
    /\ UNCHANGED <<envVars, appVars, loadVars, popup, pending, chainFailures, pageRequests,
                   voteReadFailed, persisted, lastUpsert, loadHist, reportedVenues,
                   suggestions, filterVars, calcVars>>

\* the insert of a suspended handleReport succeeds and the call runs to its end
InsertSucceeds(i) ==
    /\ i \in 1..Len(pendingReports)
    /\ LET req == pendingReports[i]
       IN  /\ suggestions' = [suggestions EXCEPT ![req.id] = @ + 1]
           /\ reportedVenues' = reportedVenues \cup {req.id}
           /\ popup' = IF req.live THEN NoPopup ELSE popup
           /\ pendingReports' = IF req.live THEN detached(removeAt(pendingReports, i))
                                ELSE removeAt(pendingReports, i)
           /\ pending' = IF req.live THEN detached(pending) ELSE pending
    /\ alert' = "none"
    /\ UNCHANGED <<envVars, appVars, loadVars, histVars, loadHist, filterVars, calcVars>>

\* what a failed insert leaves of the has-reported flags
afterFailedReport_Flagged(req) == reportedVenues \cup {req.id}

afterFailedReport(req) == reportedVenues

\* the insert of a suspended handleReport returns an error
InsertFails(i) ==
    /\ i \in 1..Len(pendingReports)
    /\ alert' = "Failed to submit report. Please try again."
    /\ pendingReports' = removeAt(pendingReports, i)
    /\ reportedVenues' = afterFailedReport(pendingReports[i])
    /\ UNCHANGED <<envVars, appVars, loadVars, popup, pending, histVars, loadHist,
                   suggestions, filterVars, calcVars>>

(***************************************************************************)
(* The earlier variant of the component (src/src/App.jsx): one fetch, one  *)
(* unpaged read of venue_votes, no blacklist, no stats, no retry; the      *)
(* click handler captures the votedVenues object and handleVote writes     *)
(* that object back.                                                       *)
(***************************************************************************)
oldCalculateStatus(votes) ==
    LET card == votes.card_votes
        girocard == votes.ec_votes
        cash == votes.cash_votes
    IN  IF card >= girocard /\ card >= cash /\ card > 0
        THEN [color |-> "#00e676", text |-> [label |-> "Verified: Accepts Cards", n |-> card], type |-> "card"]
        ELSE IF girocard >= cash /\ girocard > 0
        THEN [color |-> "#ffea00", text |-> [label |-> "Verified: Girocard Only", n |-> girocard], type |-> "girocard"]
        ELSE IF cash > 0
        THEN [color |-> "#ff5252", text |-> [label |-> "Verified: Cash Only", n |-> cash], type |-> "cash"]
        ELSE [color |-> "#b0bec5", text |-> [label |-> "Unknown", n |-> 0], type |-> "unknown"]

oldOsmFallback(status, p) ==
    IF status.type = "unknown"
    THEN IF p.cards = "no"
         THEN [color |-> "#ff5252", text |-> [label |-> "Cash Only (OSM)", n |-> 0], type |-> "cash"]
         ELSE IF p.visa = "yes" \/ p.mastercard = "yes" \/ p.cards = "yes"
         THEN [color |-> "#00e676", text |-> [label |-> "Accepts Cards (OSM)", n |-> 0], type |-> "card"]
         ELSE IF p.girocard = "yes"
         THEN [color |-> "#ffea00", text |-> [label |-> "Girocard Only (OSM)", n |-> 0], type |-> "girocard"]
         ELSE status
    ELSE status

oldProcessFeature(av, id) ==
    LET p == geoJson[id]
        votes == IF hasVote(av, id) THEN Triple(votesMapGet(av, id)) ELSE ZeroVotes
        status == oldOsmFallback(oldCalculateStatus(votes), p)
    IN  [tags |-> p,
         votes |-> votes,
         marker_color |-> status.color,
         payment_status |-> status.text,
         filter_type |-> status.type]

\* map.current.on('load', ...): fetchOverpassData up to the await of fetch
OldMapLoad ==
    /\ loadPc = "idle"
    /\ loadPc' = "fetch"
    /\ outstanding' = outstanding + 1
    /\ UNCHANGED <<envVars, appVars, timer, geoJson, allVotes, from, voteVars, histVars,
                   response, blacklistRead, byManualRetry, reportVars, filterVars, calcVars>>

\* the fetch settles: the votes are requested, or the throw is caught and the
\* load ends with nothing installed
OldFetchDone(ok) ==
    /\ loadPc = "fetch"
    /\ geoJson' = IF ok THEN osmFeatures ELSE geoJson
    /\ loadPc' = IF ok THEN "votes" ELSE "done"
    /\ outstanding' = outstanding - 1
    /\ UNCHANGED <<envVars, appVars, timer, allVotes, from, voteVars, histVars,
                   response, blacklistRead, byManualRetry, reportVars, filterVars, calcVars>>

\* the read of venue_votes answers; the venues are processed and installed
OldVotesRead(voteError) ==
    /\ loadPc = "votes"
    /\ allVotes' = IF voteError THEN EmptyVotes ELSE [filler |-> filler, rows |-> voteTable]
    /\ LET features == [id \in DOMAIN geoJson |-> oldProcessFeature(allVotes', id)]
       IN  /\ masterData' = [isNull |-> FALSE, features |-> features]
           /\ displayed' = DOMAIN features
    /\ loadPc' = "done"
    /\ UNCHANGED <<envVars, retryCount, blacklistSet, isLoading, loadError, stats,
                   votedVenues, timer, geoJson, from, voteVars, histVars, loadHist,
                   reportVars, activeFilter, calcVars>>

\* the click handler of places-dots: it keeps the parsed votedVenues object
OldPopupOpen(id) ==
    /\ id \in displayed
    /\ popup' = [open |-> TRUE, id |-> id, hasVoted |-> id \in votedVenues,
                 hasReported |-> FALSE, captured |-> votedVenues]
    /\ pending' = detached(pending)
    /\ alert' = "none"
    /\ UNCHANGED <<envVars, appVars, loadVars, histVars, loadHist, reportVars,
                   filterVars, calcVars>>

\* handleVote, from the click to the await of the upsert
OldVoteClick(voteType) ==
    /\ voteButtons
    /\ shown(popup.id)
    /\ Len(pending) < MaxPending
    /\ clicks < MaxClicks
    /\ clicks' = clicks + 1
    /\ LET match == masterData.features[popup.id]
           newVoteCount == match.votes[col(voteType)] + 1
       IN  /\ pending' = Append(pending,
                  [id |-> popup.id,
                   voteType |-> voteType,
                   newCount |-> newVoteCount,
                   row |-> upsertRow(match, popup.id, voteType, newVoteCount),
                   live |-> TRUE,
                   captured |-> popup.captured])
    /\ alert' = "none"
    /\ UNCHANGED <<envVars, appVars, loadVars, popup, chainFailures, pageRequests,
                   voteReadFailed, persisted, lastUpsert, loadHist, reportVars,
                   filterVars, calcVars>>

\* the votedVenues item as handleVote writes it: the object of its popup
oldFlagsWritten_Reread(req) == votedVenues \cup {req.id}

oldFlagsWritten(req) == req.captured \cup {req.id}

\* the upsert of a suspended handleVote succeeds and the call runs to its end
OldUpsertSucceeds(i) ==
    /\ i \in 1..Len(pending)
    /\ LET req == pending[i]
           match == masterData.features[req.id]
           votes == votesAfter(match, req)
           newStatus == oldCalculateStatus(votes)
       IN  /\ voteTable' = upsert(voteTable, req.row)
           /\ masterData' = [masterData EXCEPT !.features[req.id] =
                  [match EXCEPT !.votes = votes,
                                !.marker_color = newStatus.color,
                                !.payment_status = newStatus.text,
                                !.filter_type = newStatus.type]]
           /\ votedVenues' = oldFlagsWritten(req)
           /\ displayed' = DOMAIN masterData.features
           /\ popup' = IF req.live THEN NoPopup ELSE popup
           /\ pending' = IF req.live THEN detached(removeAt(pending, i))
                         ELSE removeAt(pending, i)
           /\ persisted' = [persisted EXCEPT ![req.id] = @ + 1]
           /\ lastUpsert' = [lastUpsert EXCEPT ![req.id] = Triple(req.row)]
    /\ alert' = "Thanks for voting!"
    /\ UNCHANGED <<osmFeatures, blacklistTable, filler, retryCount, blacklistSet,
                   isLoading, loadError, stats, loadVars, chainFailures, pageRequests,
                   voteReadFailed, clicks, loadHist, reportVars, activeFilter, calcVars>>

\* the upsert of a suspended handleVote returns an error: the call returns
OldUpsertFails(i) ==
    /\ i \in 1..Len(pending)
    /\ pending' = removeAt(pending, i)
    /\ alert' = "none"
    /\ UNCHANGED <<envVars, appVars, loadVars, popup, histVars, loadHist, reportVars,
                   filterVars, calcVars>>

(***************************************************************************)
(* A direct call of calculateStatus.                                       *)
(***************************************************************************)
Calculate ==
    /\ calcStatus = NoStatus
    /\ calcStatus' = calculateStatus(calcVotes)
    /\ UNCHANGED <<envVars, appVars, loadVars, voteVars, histVars, loadHist, reportVars, filterVars,
                   calcVotes>>

(***************************************************************************)
(* The load chains of a page view: attempts, retries, the reads.           *)
(***************************************************************************)
NextLoad ==
    \/ MapLoad
    \/ \E outcome \in FetchOutcomes : FetchFails(outcome)
    \/ FetchSucceeds
    \/ RetryTimerFires
    \/ ManualRetry
    \/ \E blacklistError \in BOOLEAN : BlacklistRead(blacklistError)
    \/ VotePageFails
    \/ VotePageMore
    \/ VotePageLast

(***************************************************************************)
(* A session: the load chains, then popups and votes.                      *)
(***************************************************************************)
Next ==
    \/ NextLoad
    \/ \E id \in Venues : PopupOpen(id)
    \/ PopupClose
    \/ \E voteType \in VoteTypes : VoteClick(voteType)
    \/ \E i \in 1..MaxPending : UpsertSucceeds(i)
    \/ \E i \in 1..MaxPending : UpsertFails(i)

Spec == Init /\ [][Next]_vars

LoadSpec == InitLoad /\ [][NextLoad]_vars

CalcSpec == InitCalc /\ [][Calculate]_vars

\* handleVote's local update on a resolved tally: one more vote for the kind
\* that the tally resolves to, then calculateStatus again
Revote ==
    /\ calcStatus # NoStatus
    /\ calcStatus.type \in VoteTypes
    /\ calcVotes[col(calcStatus.type)] <= MaxTally
    /\ calcVotes' = [calcVotes EXCEPT ![col(calcStatus.type)] = @ + 1]
    /\ calcStatus' = calculateStatus(calcVotes')
    /\ UNCHANGED <<envVars, appVars, loadVars, voteVars, histVars, loadHist, reportVars, filterVars>>

RevoteSpec == InitCalc /\ [][Calculate \/ Revote]_vars

(***************************************************************************)
(* applyFilter and a session with the filter buttons.                      *)
(***************************************************************************)
\* the categories of the four filter buttons
FilterCategories == {"all", "card", "ec", "cash"}

\* category.replace('ec', 'girocard')
filterType(category) == IF category = "ec" THEN "girocard" ELSE category

\* the features applyFilter keeps for a category
filteredFeatures(category) ==
    IF category = "all" THEN DOMAIN masterData.features
    ELSE {id \in DOMAIN masterData.features :
             masterData.features[id].filter_type = filterType(category)}

\* applyFilter(category), from a filter button
applyFilter(category) ==
    /\ activeFilter' = category
    /\ displayed' = IF masterData.isNull THEN displayed ELSE filteredFeatures(category)
    /\ UNCHANGED <<envVars, appVars, loadVars, voteVars, histVars, loadHist, reportVars,
                   calcVars>>

\* a session with the filter: node/2 is tagged as taking cards, node/1 has
\* neither tags nor votes; the vote table holds one page of other venues' rows
InitFilter ==
    /\ osmFeatures = [v \in Venues |-> IF v = "node/2" THEN CardsYes ELSE NoTags]
    /\ blacklistTable = {}
    /\ voteTable = <<>>
    /\ filler = pageSize
    /\ AppInit
    /\ CalcIdle

NextFilter ==
    \/ Next
    \/ \E category \in FilterCategories : applyFilter(category)

FilterSpec == InitFilter /\ [][NextFilter]_vars

(***************************************************************************)
(* A session of the earlier variant: the load, then popups and votes.      *)
(***************************************************************************)
NextOld ==
    \/ OldMapLoad
    \/ \E ok \in BOOLEAN : OldFetchDone(ok)
    \/ \E voteError \in BOOLEAN : OldVotesRead(voteError)
    \/ \E id \in Venues : OldPopupOpen(id)
    \/ PopupClose
    \/ \E voteType \in VoteTypes : OldVoteClick(voteType)
    \/ \E i \in 1..MaxPending : OldUpsertSucceeds(i)
    \/ \E i \in 1..MaxPending : OldUpsertFails(i)

OldSpec == InitOld /\ [][NextOld]_vars

(***************************************************************************)
(* A session with reports: the load chains, popups, votes and reports.     *)
(***************************************************************************)
NextReport ==
    \/ Next
    \/ ReportClick
    \/ \E i \in 1..MaxPending : InsertSucceeds(i)
    \/ \E i \in 1..MaxPending : InsertFails(i)

ReportSpec == InitReport /\ [][NextReport]_vars

(***************************************************************************)
(* A page view under persistent failure of the venue fetch.  The map fires *)
(* its load event, every fetch settles and every timer fires; the user may *)
(* or may not tap the error toast.                                         *)
(***************************************************************************)
NextFail ==
    \/ MapLoad
    \/ \E outcome \in FetchOutcomes : FetchFails(outcome)
    \/ RetryTimerFires
    \/ ManualRetry

FailSpec ==
    /\ InitFail
    /\ [][NextFail]_vars
    /\ WF_vars(MapLoad)
    /\ WF_vars(\E outcome \in FetchOutcomes : FetchFails(outcome))
    /\ WF_vars(RetryTimerFires)


(***************************************************************************)
(* Properties.                                                             *)
(***************************************************************************)
calculated == calcStatus # NoStatus

\* C1: for every tally, calculateStatus gives card iff card >= giro, card >=
\* cash and card > 0; otherwise giro iff giro >= cash and giro > 0; otherwise
\* cash iff cash > 0; otherwise unknown.  {cash:2, card:2, giro:0} is card,
\* {cash:3, card:2, giro:0} is cash, {cash:0, card:0, giro:1} is giro.
C1_MajorityRule ==
    calculated =>
        LET card == calcVotes.card_votes
            giro == calcVotes.ec_votes
            cash == calcVotes.cash_votes
            cardWins == card >= giro /\ card >= cash /\ card > 0
            giroWins == ~cardWins /\ giro >= cash /\ giro > 0
            cashWins == ~cardWins /\ ~giroWins /\ cash > 0
        IN  /\ calcStatus.type = "card" <=> cardWins
            /\ calcStatus.type = "girocard" <=> giroWins
            /\ calcStatus.type = "cash" <=> cashWins
            /\ calcStatus.type = "unknown" <=> ~cardWins /\ ~giroWins /\ ~cashWins
            /\ calcVotes = [cash_votes |-> 2, ec_votes |-> 0, card_votes |-> 2]
                  => calcStatus.type = "card"
            /\ calcVotes = [cash_votes |-> 3, ec_votes |-> 0, card_votes |-> 2]
                  => calcStatus.type = "cash"
            /\ calcVotes = [cash_votes |-> 0, ec_votes |-> 1, card_votes |-> 0]
                  => calcStatus.type = "girocard"

\* a tie of card and giro above cash has been resolved
C1_Witness ==
    /\ calculated
    /\ calcVotes = [cash_votes |-> 1, ec_votes |-> 2, card_votes |-> 2]
    /\ calcStatus.type = "card"

voteFailedAlert == "Failed to save vote. Please try again."

\* C2: a vote upsert that returns an error leaves the venue collection (tally,
\* category, colour, status text), the stats and the has-voted flags as they
\* were before the step.
C2_FailedVoteMutatesNothing ==
    [][(alert' = voteFailedAlert /\ Len(pending') < Len(pending))
          => /\ masterData' = masterData
             /\ stats' = stats
             /\ votedVenues' = votedVenues]_vars

\* a vote for a venue not voted on yet has just failed
C2_Witness ==
    /\ alert = voteFailedAlert
    /\ popup.open
    /\ popup.id \notin votedVenues
    /\ clicks > 0

backoff == <<1000, 2000, 4000>>

\* C3: after the first failed fetch there are at most 3 automatic retries, the
\* k-th scheduled by a timer of 2^(k-1) seconds at the k-th failure (1 s, 2 s,
\* 4 s); at the next failure no timer is scheduled and the permanent failure
\* message is set.
C3_RetryBackoff ==
    /\ chainFailures <= maxRetries + 1
    /\ timer > 0 <=> loadPc = "timer"
    /\ loadPc = "timer" =>
          /\ chainFailures \in 1..3
          /\ timer = backoff[chainFailures]
          /\ loadError = RetryingError(chainFailures)
    /\ chainFailures \in 1..3 => loadPc \in {"timer", "fetch", "blacklist", "votes"}
    /\ chainFailures = 4 =>
          /\ loadPc = "done"
          /\ timer = 0
          /\ loadError = PermanentError

\* the third retry is scheduled, 4 s after the third failure
C3_Witness ==
    /\ chainFailures = 3
    /\ loadPc = "timer"
    /\ timer = 4000

\* C4, as claimed: once the venue fetch has failed 3 times in a row the load
\* is in the permanent error state and no automatic retry is scheduled.
C4_ThreeFailuresPermanent ==
    chainFailures = 3 =>
        /\ loadPc = "done"
        /\ ~isLoading
        /\ loadError = PermanentError
        /\ timer = 0

\* C4, amended: once the venue fetch has failed 4 times in a row (the first
\* attempt and its 3 automatic retries) the load is in the permanent error
\* state and no automatic retry is scheduled; before that it is not.
C4_FourFailuresPermanent ==
    /\ chainFailures >= 4 =>
          /\ loadPc = "done"
          /\ ~isLoading
          /\ loadError = PermanentError
          /\ timer = 0
    /\ chainFailures \in 1..3 => loadError # PermanentError /\ isLoading

\* the fourth attempt in a row has failed
C4_Witness ==
    /\ chainFailures = 4
    /\ retryCount = maxRetries
    /\ loadError = PermanentError


\* the row of venue id in a state of venue_votes, ZeroVotes-shaped when it has none
hasRow(table, id) == \E i \in 1..Len(table) : table[i].osm_id = id
rowOf(table, id) == table[CHOOSE i \in 1..Len(table) : table[i].osm_id = id]

\* C5: in the vote store the three counters of every venue record are >= 0 and
\* no step lowers any of them.
C5_CountersNeverDecrease ==
    [][\A id \in Venues :
          hasRow(voteTable, id) =>
              /\ hasRow(voteTable', id)
              /\ rowOf(voteTable', id).cash_votes >= rowOf(voteTable, id).cash_votes
              /\ rowOf(voteTable', id).ec_votes >= rowOf(voteTable, id).ec_votes
              /\ rowOf(voteTable', id).card_votes >= rowOf(voteTable, id).card_votes
              /\ rowOf(voteTable', id).cash_votes >= 0
              /\ rowOf(voteTable', id).ec_votes >= 0
              /\ rowOf(voteTable', id).card_votes >= 0]_vars

\* C6: once every submission has completed, the local tally of each venue this
\* client saved a vote for equals the triple of its last successful upsert.
C6_LocalEqualsLastUpsert ==
    (pending = <<>> /\ ~masterData.isNull) =>
        \A id \in DOMAIN masterData.features :
            persisted[id] > 0 => masterData.features[id].votes = lastUpsert[id]

\* C7: for each venue at most one vote upsert of this client ever succeeds, and
\* a popup on a venue whose has-voted flag is set offers no vote control.
C7_OneVotePerVenue ==
    /\ \A id \in Venues : persisted[id] <= 1
    /\ (popup.open /\ popup.id \in votedVenues) => ~voteButtons

\* C8: each vote click submits the venue's local tally with the voted counter
\* incremented by 1 and the other two unchanged, and the step in which an
\* upsert succeeds leaves the local tally equal to the submitted triple.
C8_OneIncrementPerVote ==
    [][/\ Len(pending') > Len(pending) =>
            LET req == pending'[Len(pending')]
                local == masterData.features[req.id].votes
            IN  /\ Triple(req.row)[col(req.voteType)] = local[col(req.voteType)] + 1
                /\ \A t \in VoteTypes \ {req.voteType} :
                       Triple(req.row)[col(t)] = local[col(t)]
       /\ \A id \in Venues :
            persisted'[id] > persisted[id] =>
                masterData'.features[id].votes = lastUpsert'[id]]_vars

\* C9: with no read error (the table does not change during a load), the page
\* loop asks for consecutive ranges of 1000 rows, stops at the first page that
\* is empty or short, and has then read exactly the N rows of the table, each
\* once; for N = 2500 it issues exactly 3 requests.
C9_PaginationReadsAll ==
    LET N == filler + Len(voteTable)
    IN  /\ loadPc = "votes" =>
              /\ from = (pageRequests - 1) * pageSize
              /\ from <= N
              /\ allVotes = tableRange(0, from - 1)
              /\ rowCount(allVotes) = from
        /\ (loadPc = "done" /\ ~masterData.isNull /\ ~voteReadFailed) =>
              /\ allVotes.filler = filler
              /\ allVotes.rows = voteTable
              /\ rowCount(allVotes) = N
              /\ pageRequests = (N \div pageSize) + 1
              /\ N = 2500 => pageRequests = 3

\* a table of 2500 rows has been read in 3 requests
C9_Witness ==
    /\ loadPc = "done"
    /\ ~masterData.isNull
    /\ ~voteReadFailed
    /\ filler + Len(voteTable) = 2500
    /\ pageRequests = 3
    /\ Len(allVotes.rows) = 2

\* the tally venue id gets from the rows stored at the table positions below n
joinedBelow(id, n) ==
    IF \E j \in 1..Len(voteTable) : voteTable[j].osm_id = id /\ filler + j - 1 < n
    THEN Triple(rowOf(voteTable, id))
    ELSE ZeroVotes

allZero == \A id \in DOMAIN masterData.features : masterData.features[id].votes = ZeroVotes

loadSucceeded ==
    /\ loadPc = "done"
    /\ ~masterData.isNull
    /\ ~isLoading
    /\ loadError = NoErrorRec
    /\ timer = 0

C13_CollectionIsFetchedMinusBlacklist ==
    (loadPc = "done" /\ ~masterData.isNull) =>
        /\ blacklistRead.done
        /\ ~blacklistRead.error => blacklistRead.ids = blacklistTable
        /\ \A id \in blacklistRead.ids : id \notin DOMAIN masterData.features
        /\ \A id \in DOMAIN osmFeatures :
               id \notin blacklistRead.ids => id \in DOMAIN masterData.features
        /\ DOMAIN masterData.features \subseteq DOMAIN osmFeatures

\* a load has dropped a blacklisted venue and kept another one
C13_Witness ==
    /\ loadPc = "done"
    /\ ~masterData.isNull
    /\ ~blacklistRead.error
    /\ \E id \in blacklistRead.ids : id \in DOMAIN osmFeatures
    /\ DOMAIN masterData.features # {}

\* the category the source tags p give
tagCategory(p) ==
    IF p.cards = "no" THEN "cash"
    ELSE IF p.visa = "yes" \/ p.mastercard = "yes" \/ p.cards = "yes" THEN "card"
    ELSE IF p.girocard = "yes" THEN "girocard"
    ELSE "unknown"

\* C14: after a load, a venue whose three counters are 0 has the category of
\* its source tags, by precedence payment:cards=no -> cash, else visa=yes or
\* mastercard=yes or cards=yes -> card, else girocard=yes -> giro, else
\* unknown; a venue with a non-zero counter has the status of the majority
\* rule on its tally, whatever its tags.
C14_TagsOnlyWhenNoVotes ==
    (loadPc = "done" /\ ~masterData.isNull) =>
        \A id \in DOMAIN masterData.features :
            LET f == masterData.features[id]
                byVotes == calculateStatus(f.votes)
            IN  /\ f.tags = osmFeatures[id]
                /\ f.votes = ZeroVotes => f.filter_type = tagCategory(f.tags)
                /\ f.votes # ZeroVotes =>
                      /\ f.filter_type = byVotes.type
                      /\ f.filter_type # "unknown"
                      /\ f.marker_color = byVotes.color
                      /\ f.payment_status = byVotes.text

\* loaded: a venue without votes whose tags say cards=no and visa=yes is cash,
\* one tagged girocard=yes and visa=yes is card, and a venue with cash votes
\* and the tag cards=yes is cash
C14_Witness ==
    /\ loadPc = "done"
    /\ ~masterData.isNull
    /\ \E a, b \in DOMAIN masterData.features :
          /\ masterData.features[a].votes = ZeroVotes
          /\ masterData.features[a].tags \in {CardsNoVisaYes, GiroYesVisaYes}
          /\ masterData.features[a].filter_type =
                IF masterData.features[a].tags = CardsNoVisaYes THEN "cash" ELSE "card"
          /\ masterData.features[b].votes.cash_votes > 0
          /\ masterData.features[b].tags = CardsYes
          /\ masterData.features[b].filter_type = "cash"

rejected == {"network_error", "not_ok", "no_elements", "no_features"}

\* the catch block has scheduled a retry or, the retries used up, has given up
onRetryPath ==
    \/ /\ retryCount < maxRetries
       /\ retryCount' = retryCount + 1
       /\ loadPc' = "timer"
       /\ timer' > 0
       /\ loadError' = RetryingError(retryCount')
    \/ /\ retryCount = maxRetries
       /\ retryCount' = retryCount
       /\ loadPc' = "done"
       /\ timer' = 0
       /\ loadError' = PermanentError

\* C15: a venue response that is not OK, has no elements or converts to no
\* feature (a fetch that throws included) is a failure: the step that receives
\* it takes the retry path and installs no venue collection and no stats, and
\* a load goes past the fetch only with at least one feature.
C15_EmptyResponseIsFailure ==
    [][/\ (loadPc = "fetch" /\ loadPc' # "fetch"
              /\ (response' \in rejected \/ DOMAIN osmFeatures = {})) =>
            /\ response' \in rejected
            /\ chainFailures' = chainFailures + 1
            /\ onRetryPath
            /\ masterData' = masterData
            /\ stats' = stats
       /\ (loadPc = "fetch" /\ loadPc' = "blacklist") =>
            /\ response' = "ok"
            /\ DOMAIN geoJson' # {}
       /\ (masterData' # masterData /\ loadPc' = "done") =>
            /\ response = "ok"
            /\ DOMAIN geoJson # {}]_vars

\* a response without elements was received as the second failure in a row
C15_Witness ==
    /\ response = "no_elements"
    /\ chainFailures = 2
    /\ loadPc = "timer"
    /\ masterData.isNull

\* C16: a venue fetch attempt that fails leaves the venue collection, the
\* stats and the blacklist set as they were before the attempt: neither its
\* entry nor the step that fails changes them.
C16_FailedFetchMutatesNothing ==
    [][(loadPc' = "fetch" \/ chainFailures' = chainFailures + 1) =>
            /\ masterData' = masterData
            /\ stats' = stats
            /\ blacklistSet' = blacklistSet]_vars

\* a retry has failed on a response that was not OK
C16_Witness ==
    /\ response = "not_ok"
    /\ chainFailures >= 2
    /\ retryCount >= 2
    /\ masterData = NullData
    /\ blacklistSet = {}

\* C17: every step that completes a load successfully leaves the retry counter
\* at 0, and the manual retry sets it to 0 before it fetches; in the chain a
\* manual retry starts the counter equals the failures of that chain, so its
\* failures 1, 2 and 3 schedule a retry each and only the 4th is permanent.
C17_RetryCounterReset ==
    [][/\ (loadPc # "done" /\ loadPc' = "done" /\ ~masterData'.isNull) => retryCount' = 0
       /\ (errorToastShown /\ loadPc' = "fetch") =>
            /\ byManualRetry'
            /\ retryCount' = 0
            /\ chainFailures' = 0
       /\ (byManualRetry' /\ loadPc' \in {"fetch", "timer"}) =>
            /\ retryCount' = chainFailures'
            /\ retryCount' <= maxRetries
       /\ (byManualRetry' /\ chainFailures' = chainFailures + 1) =>
            IF chainFailures < maxRetries
            THEN loadPc' = "timer" /\ timer' = backoff[chainFailures + 1]
            ELSE loadPc' = "done" /\ loadError' = PermanentError]_vars

\* after a manual retry the third automatic retry is scheduled
C17_Witness ==
    /\ byManualRetry
    /\ chainFailures = 3
    /\ retryCount = 3
    /\ loadPc = "timer"
    /\ timer = 4000

permanentError ==
    /\ loadPc = "done"
    /\ ~isLoading
    /\ loadError = PermanentError
    /\ timer = 0

\* C18: when the venue fetch keeps failing, every attempt is followed by the
\* permanent error state (not loading, the permanent message set, no timer
\* pending) after at most 4 failed attempts of its chain; that state shows the
\* error toast, nothing but the tap on the toast fetches again from it, and
\* no chain retries forever.
C18_PermanentErrorReached ==
    /\ (loadPc \in {"fetch", "timer"}) ~> permanentError
    /\ [](chainFailures <= maxRetries + 1)
    /\ [](permanentError =>
            /\ chainFailures = maxRetries + 1
            /\ errorToastShown
            /\ ENABLED ManualRetry
            /\ ~ENABLED RetryTimerFires
            /\ ~ENABLED MapLoad
            /\ ~ENABLED (\E outcome \in FetchOutcomes : FetchFails(outcome)))
    /\ [][(permanentError /\ loadPc' = "fetch") =>
            /\ byManualRetry'
            /\ retryCount' = 0
            /\ chainFailures' = 0]_vars

\* the chain started by a tap on the error toast has ended in the permanent
\* error state again
C18_Witness ==
    /\ permanentError
    /\ byManualRetry
    /\ chainFailures = maxRetries + 1
    /\ response \in rejected

\* p is 100 * m / t rounded to the nearest integer, a half rounded up
isRounded(p, m, t) == 2 * p * t <= 200 * m + t /\ 200 * m + t < 2 * (p + 1) * t

\* C19: after every successful load, stats.total is the number of venues of
\* the collection, stats.mapped the number of those whose category is not
\* unknown, and stats.percent is round(100 * mapped / total), 0 when total is
\* 0: a collection without venues has the stats 0, 0, 0.
C19_StatsOfLoad ==
    (loadPc = "done" /\ ~masterData.isNull) =>
        LET fs == masterData.features
            known == {id \in DOMAIN fs : fs[id].filter_type # "unknown"}
        IN  /\ stats.total = Cardinality(DOMAIN fs)
            /\ stats.mapped = Cardinality(known)
            /\ stats.total > 0 => isRounded(stats.percent, stats.mapped, stats.total)
            /\ stats.total = 0 => stats.percent = 0
            /\ DOMAIN fs = {} => stats = [total |-> 0, mapped |-> 0, percent |-> 0]

\* two of three loaded venues have a category: 67 percent
C19_Witness ==
    /\ loadPc = "done"
    /\ ~masterData.isNull
    /\ stats = [total |-> 3, mapped |-> 2, percent |-> 67]

\* every fetched venue was blacklisted: the collection is empty and the stats
\* are 0, 0, 0
C19_WitnessEmpty ==
    /\ loadPc = "done"
    /\ ~masterData.isNull
    /\ DOMAIN masterData.features = {}
    /\ stats.total = 0

\* C20: the step in which a vote is saved raises stats.mapped by exactly 1,
\* with total unchanged and percent = round(100 * mapped / total), if and only
\* if the venue's category is unknown before the step and not unknown after
\* it; otherwise it leaves the stats unchanged.  No step lowers stats.mapped.
C20_MappedFollowsCategory ==
    [][/\ \A id \in Venues :
            persisted'[id] > persisted[id] =>
                IF /\ masterData.features[id].filter_type = "unknown"
                   /\ masterData'.features[id].filter_type # "unknown"
                THEN /\ stats'.total = stats.total
                     /\ stats'.mapped = stats.mapped + 1
                     /\ isRounded(stats'.percent, stats'.mapped, stats'.total)
                ELSE stats' = stats
       /\ stats'.mapped >= stats.mapped]_vars

\* C21: a has-voted flag that is set in the client's storage stays set: no
\* step (a popup opening, a vote, a report, on any venue) clears it, whichever
\* variant of handleVote runs.
C21_VotedFlagStaysSet ==
    [][\A id \in Venues : id \in votedVenues => id \in votedVenues']_vars

reportFailedAlert == "Failed to submit report. Please try again."

\* C22: the step in which a report insert fails raises the failure alert and
\* changes neither the has-reported flags nor the stored reports; the step in
\* which an insert succeeds adds exactly one entry, for the reported venue,
\* and sets that venue's flag; a popup opened on a venue whose flag is set
\* shows no report button.
C22_ReportFlagFollowsInsert ==
    [][/\ Len(pendingReports') < Len(pendingReports) =>
            \/ /\ alert' = reportFailedAlert
               /\ reportedVenues' = reportedVenues
               /\ suggestions' = suggestions
            \/ /\ alert' # reportFailedAlert
               /\ \E id \in Venues :
                     /\ suggestions' = [suggestions EXCEPT ![id] = @ + 1]
                     /\ reportedVenues' = reportedVenues \cup {id}
       /\ alert' = reportFailedAlert => Len(pendingReports') < Len(pendingReports)
       /\ suggestions' # suggestions => Len(pendingReports') < Len(pendingReports)
       /\ (popup' # popup /\ popup'.open /\ popup'.id \in reportedVenues') =>
            /\ popup'.hasReported
            /\ ~reportButton']_vars

\* a report of a venue was saved once, and the popup opened on it afterwards
\* shows no report button
C22_Witness ==
    /\ popup.open
    /\ popup.hasReported
    /\ popup.id \in reportedVenues
    /\ suggestions[popup.id] = 1
    /\ ~reportButton

\* a report insert has just failed and the venue is not flagged
C22_WitnessFailed ==
    /\ alert = reportFailedAlert
    /\ popup.open
    /\ popup.id \notin reportedVenues
    /\ suggestions[popup.id] = 0

\* C23: in every load the statuses of the venues are resolved (and the
\* collection installed) only in a step before which the venue fetch of the
\* load was accepted and its blacklist read had answered, and with which its
\* vote read is complete: every row of the table is read, or a page read has
\* returned an error.
C23_ResolveAfterReads ==
    [][masterData' # masterData =>
          /\ loadPc = "votes"
          /\ loadPc' = "done"
          /\ response = "ok"
          /\ geoJson = osmFeatures
          /\ blacklistRead.done
          /\ pageRequests >= 1
          /\ \/ voteReadFailed'
             \/ /\ allVotes'.rows = voteTable
                /\ allVotes'.filler = filler
          /\ \A id \in DOMAIN masterData'.features :
                masterData'.features[id].votes =
                    IF hasVote(allVotes', id) THEN Triple(votesMapGet(allVotes', id))
                    ELSE ZeroVotes]_vars

\* a load that read the blacklist and three vote pages has resolved a venue
\* from its votes
C23_Witness ==
    /\ loadPc = "done"
    /\ ~masterData.isNull
    /\ response = "ok"
    /\ blacklistRead.done
    /\ ~voteReadFailed
    /\ pageRequests = 3
    /\ \E id \in DOMAIN masterData.features : masterData.features[id].votes # ZeroVotes


\* C24: after a successful load, under every interleaving of vote clicks and
\* upsert completions, stats.mapped is the number of venues of the collection
\* whose category is not unknown, so that mapped never exceeds total and the
\* percent never exceeds 100.
C24_MappedCountsKnown ==
    (loadPc = "done" /\ ~masterData.isNull) =>
        LET fs == masterData.features
        IN  /\ stats.mapped = Cardinality({id \in DOMAIN fs : fs[id].filter_type # "unknown"})
            /\ stats.mapped <= stats.total
            /\ stats.percent <= 100


\* C25: for every tally that calculateStatus resolves to card, girocard or
\* cash, one more vote for that kind resolves to the same kind; and every
\* resolved tally whose card counter is positive and the largest of the three
\* resolves to card.
C25_WinnerKeepsCategory ==
    [][/\ (calcStatus # NoStatus /\ calcVotes' # calcVotes)
             => /\ calcStatus.type \in VoteTypes
                /\ calcVotes'[col(calcStatus.type)] = calcVotes[col(calcStatus.type)] + 1
                /\ calcStatus'.type = calcStatus.type
       /\ (/\ calcStatus' # NoStatus
           /\ calcVotes'.card_votes > 0
           /\ calcVotes'.card_votes >= calcVotes'.ec_votes
           /\ calcVotes'.card_votes >= calcVotes'.cash_votes)
             => calcStatus'.type = "card"]_vars

\* card, tied with girocard and cash at the largest initial tally, was resolved
\* to card and got one more card vote
C25_Witness ==
    /\ calcStatus.type = "card"
    /\ calcVotes = [cash_votes |-> MaxTally, ec_votes |-> MaxTally, card_votes |-> MaxTally + 1]

\* a tally resolved to girocard, with cash level, got one more girocard vote
C25_WitnessGirocard ==
    /\ calcStatus.type = "girocard"
    /\ calcVotes.ec_votes = MaxTally + 1
    /\ calcVotes.cash_votes = MaxTally
    /\ calcVotes.card_votes < MaxTally


\* C26: at any time at most one venue fetch is in flight or scheduled by a
\* timer.  The error toast with the manual retry is rendered only in the
\* permanent error state, where no fetch is in flight and no timer is pending;
\* a manual retry starts from there, and the retry counter advances by one,
\* only in the step in which the one fetch in flight fails.
C26_OneFetchAtATime ==
    [][/\ outstanding' <= 1
       /\ outstanding' = (IF loadPc' \in {"fetch", "timer"} THEN 1 ELSE 0)
       /\ errorToastShown' =>
             /\ loadError' = PermanentError
             /\ ~isLoading'
             /\ loadPc' = "done"
             /\ timer' = 0
             /\ outstanding' = 0
       /\ (byManualRetry' /\ ~byManualRetry) =>
             /\ outstanding = 0
             /\ timer = 0
             /\ outstanding' = 1
       /\ retryCount' > retryCount =>
             /\ outstanding = 1
             /\ loadPc = "fetch"
             /\ retryCount' = retryCount + 1
             /\ retryCount' = chainFailures']_vars

\* a manual retry was made from the permanent error state and its chain has
\* scheduled its second automatic retry: one timer, no fetch in flight
C26_Witness ==
    /\ byManualRetry
    /\ loadPc = "timer"
    /\ timer = retryDelay(2)
    /\ retryCount = 2
    /\ outstanding = 1
    /\ ~errorToastShown


\* the venues of the collection that match the active filter
matchingFilter ==
    {id \in DOMAIN masterData.features :
        activeFilter = "all" \/ masterData.features[id].filter_type = filterType(activeFilter)}

\* C27: after every applyFilter call on a loaded collection and after every
\* successful vote, the venues handed to the map are exactly the venues of the
\* collection that match the active filter (all of them for 'all'): a vote
\* never brings venues outside the active filter onto the map.
C27_DisplayedMatchesFilter ==
    [][(/\ ~masterData.isNull
        /\ \/ activeFilter' # activeFilter
           \/ \E id \in Venues : persisted'[id] > persisted[id])
          => displayed' = matchingFilter']_vars

====
